---- MODULE Spec2Model ----
(***************************************************************************)
(* Model of the lead scraper: the heuristic content extractor of           *)
(* services/website_crawler.py, the crawl call around it, and the enrich   *)
(* loop of api/routes.py over the lead store of services/lead_store.py.    *)
(*                                                                         *)
(* A Python str is a TLA+ string in the state and a tuple of one-character *)
(* strings inside the extractor.  Optional values: None is <<>> and a      *)
(* present value v is <<v>>.  A dict is a function on its keys; {} is the  *)
(* function with the empty domain.  The texts are ASCII, so str.lower()    *)
(* and re.IGNORECASE act on the letters A-Z alone.                         *)
(***************************************************************************)
EXTENDS Integers, Sequences, FiniteSets, TLC

VARIABLES
    pages,       \* the crawled page bodies of the website (crawl_website: all_content)
    pc,          \* "crawl" before the extraction call, "done" after it
    result,      \* the dict returned by _extract_business_info
    leads,       \* the leads table of the store: lead id -> row
    created,     \* the number of leads created so far (ids are never reused)
    run,         \* the scrape or enrich request being served, or NoRun
    enriched_count,  \* enriched_count of the request being served or last served
    calls,       \* the calls of _extract_business_info in progress: call -> frame
    listing      \* the GET /leads request being served, or its response

vars == <<pages, pc, result, leads, created, run, enriched_count, calls, listing>>

-----------------------------------------------------------------------------
(* Optional values and dicts *)

None == <<>>

Some(v) == <<v>>

EmptyDict == [k \in {} |-> None]

\* dict.get(key, default)
Get(d, key, default) == IF key \in DOMAIN d THEN d[key] ELSE default

-----------------------------------------------------------------------------
(* Characters and strings *)

Chars(s) == [i \in 1..Len(s) |-> SubSeq(s, i, i)]

UpperCase == Chars("ABCDEFGHIJKLMNOPQRSTUVWXYZ")

LowerCase == Chars("abcdefghijklmnopqrstuvwxyz")

UpperSet == {UpperCase[i] : i \in 1..Len(UpperCase)}

LowerSet == {LowerCase[i] : i \in 1..Len(LowerCase)}

DigitSet == {"0", "1", "2", "3", "4", "5", "6", "7", "8", "9"}

\* \s of the re module, on ASCII
WhiteSpace == {" ", "\t", "\n", "\r", "\f"}

\* [:\s]
ColonSpace == WhiteSpace \cup {":"}

LowerOf == [ch \in UpperSet |-> LowerCase[CHOOSE i \in 1..Len(UpperCase) : UpperCase[i] = ch]]

\* str.lower(), on a tuple of characters
Lower(c) == [i \in 1..Len(c) |-> IF c[i] \in UpperSet THEN LowerOf[c[i]] ELSE c[i]]

Min(S) == CHOOSE x \in S : \A y \in S : x <= y

Max(S) == CHOOSE x \in S : \A y \in S : x >= y

\* the string of the characters c[lo..hi]
RECURSIVE Str(_, _, _)
Str(c, lo, hi) ==
    IF lo > hi THEN ""
    ELSE IF lo = hi THEN c[lo]
    ELSE LET mid == (lo + hi) \div 2
         IN  Str(c, lo, mid) \o Str(c, mid + 1, hi)

\* the literal w occurs in c at position i
MatchAt(c, i, w) ==
    /\ i + Len(w) - 1 <= Len(c)
    /\ \A k \in 1..Len(w) : c[i + k - 1] = w[k]

\* the positions from pos on at which the literal w occurs in c
Occurrences(c, w, pos) ==
    {i \in pos..(Len(c) - Len(w) + 1) : c[i] = w[1] /\ MatchAt(c, i, w)}

\* Python's "w in c"
Contains(c, w) == \E i \in 1..(Len(c) - Len(w) + 1) : c[i] = w[1] /\ MatchAt(c, i, w)

\* the first position at or after i whose character is not in S (Len(c)+1 if none):
\* the end of a greedy run S* started at i
RunEnd(c, i, S) ==
    LET stops == {j \in i..Len(c) : c[j] \notin S}
    IN  IF stops = {} THEN Len(c) + 1 ELSE Min(stops)

\* the first position at or after i whose character is in S (Len(c)+1 if none):
\* the end of a greedy run [^S]* started at i
StopAt(c, i, S) ==
    LET stops == {j \in i..Len(c) : c[j] \in S}
    IN  IF stops = {} THEN Len(c) + 1 ELSE Min(stops)

\* str.strip(): c without its leading and trailing whitespace
Strip(c) ==
    LET keep == {i \in 1..Len(c) : c[i] \notin WhiteSpace}
    IN  IF keep = {} THEN <<>> ELSE SubSeq(c, Min(keep), Max(keep))

\* CollapseWs that leaves the text as it is
KeepWhitespace(c) == c

\* re.sub(r"\s+", " ", c): every maximal run of whitespace becomes one space
CollapseWs(c) ==
    LET idx  == [i \in 1..Len(c) |-> i]
        kept == SelectSeq(idx, LAMBDA i :
                    c[i] \notin WhiteSpace \/ i = 1 \/ c[i - 1] \notin WhiteSpace)
    IN  [j \in 1..Len(kept) |-> IF c[kept[j]] \in WhiteSpace THEN " " ELSE c[kept[j]]]

\* s[:n], of a str or a list
Truncate(c, n) == IF Len(c) > n THEN SubSeq(c, 1, n) ELSE c

-----------------------------------------------------------------------------
(* website_crawler.py: the extractor *)

DescMinLen == 50

DescMaxLen == 300

DescLimit == 500

ParaMinLen == 100

ServiceLimit == 10

SpecLimit == 5

ProjectLimit == 5

ProjectsPerPattern == 3

ProjMinLen == 20

ProjMaxLen == 100

\* the three section phrases of _extract_description, in the order of the list
description_patterns == <<Chars("over ons"), Chars("wie zijn wij"), Chars("welkom")>>

\* SearchDescription whose group starts right after the phrase: [:\s]* is left out
SearchDescriptionKeepsSeparator(c, lc, phrase) ==
    LET found == {i \in Occurrences(lc, phrase, 1) :
                    StopAt(c, i + Len(phrase), {"\n"}) - (i + Len(phrase)) >= DescMinLen}
    IN  IF found = {} THEN None
        ELSE LET q == Min(found) + Len(phrase)
                 e == StopAt(c, q, {"\n"})
             IN  Some(<<q, Min({e - 1, q + DescMaxLen - 1})>>)

\* re.search(phrase [:\s]* (.{50,300}), content, re.IGNORECASE): None, or
\* <<first, last>>, the positions of group 1.  The match is at the leftmost
\* position of the phrase from which the rest can match; [:\s]* is greedy and
\* gives characters back until 50 characters other than "\n" follow it; the
\* group then takes up to 300 of them.
SearchDescription(c, lc, phrase) ==
    LET from(i)  == i + Len(phrase)
        \* where group 1 can start after the phrase at i
        begin(i) == {q \in from(i)..RunEnd(c, from(i), ColonSpace) :
                        StopAt(c, q, {"\n"}) - q >= DescMinLen}
        found    == {i \in Occurrences(lc, phrase, 1) : begin(i) # {}}
    IN  IF found = {} THEN None
        ELSE LET q == Max(begin(Min(found)))
                 e == StopAt(c, q, {"\n"})
             IN  Some(<<q, Min({e - 1, q + DescMaxLen - 1})>>)

\* content.split("\n\n"): the start positions of the separators, found left to
\* right without overlap; in a run of newlines they are the 1st, 3rd, ... ones
ParagraphBreaks(c) ==
    LET runStart(j) == Max({k \in 1..j : k = 1 \/ c[k - 1] # "\n"})
        idx == [i \in 1..Len(c) |-> i]
    IN  SelectSeq(idx, LAMBDA j :
            /\ j < Len(c)
            /\ c[j] = "\n"
            /\ c[j + 1] = "\n"
            /\ (j - runStart(j)) % 2 = 0)

\* content.split("\n\n")
SplitParagraphs(c) ==
    LET br == ParagraphBreaks(c)
        first(k) == IF k = 1 THEN 1 ELSE br[k - 1] + 2
        last(k)  == IF k = Len(br) + 1 THEN Len(c) ELSE br[k] - 1
    IN  [k \in 1..(Len(br) + 1) |-> SubSeq(c, first(k), last(k))]

\* the first of the values found (one per pattern of a list, in the order of
\* the list) that is a match, or None
FirstMatch(found) ==
    LET hit == {p \in 1..Len(found) : found[p] # None}
    IN  IF hit = {} THEN None ELSE found[Min(hit)]

\* _extract_description that takes the section phrase found first in the text
ExtractDescriptionByPosition(c) ==
    LET lc    == Lower(c)
        found == [p \in 1..Len(description_patterns) |->
                    SearchDescription(c, lc, description_patterns[p])]
        hit   == {p \in 1..Len(found) : found[p] # None}
        match == IF hit = {} THEN None
                 ELSE found[CHOOSE p \in hit : \A o \in hit : found[p][1][1] <= found[o][1][1]]
    IN  IF match # None
        THEN LET desc == CollapseWs(Strip(SubSeq(c, match[1][1], match[1][2])))
             IN  Some(Str(Truncate(desc, DescLimit), 1, Len(Truncate(desc, DescLimit))))
        ELSE LET paragraphs == SplitParagraphs(c)
                 ok == {k \in 1..Len(paragraphs) :
                            /\ Len(paragraphs[k]) > ParaMinLen
                            /\ paragraphs[k][1] # "#"}
             IN  IF ok = {} THEN None
                 ELSE LET clean == CollapseWs(Strip(paragraphs[Min(ok)]))
                      IN  Some(Str(Truncate(clean, DescLimit), 1,
                                   Len(Truncate(clean, DescLimit))))

_extract_description(c) ==
    LET lc    == Lower(c)
        match == FirstMatch([p \in 1..Len(description_patterns) |->
                                SearchDescription(c, lc, description_patterns[p])])
    IN  IF match # None
        THEN LET desc == CollapseWs(Strip(SubSeq(c, match[1][1], match[1][2])))
             IN  Some(Str(Truncate(desc, DescLimit), 1, Len(Truncate(desc, DescLimit))))
        ELSE LET paragraphs == SplitParagraphs(c)
                 ok == {k \in 1..Len(paragraphs) :
                            /\ Len(paragraphs[k]) > ParaMinLen
                            /\ paragraphs[k][1] # "#"}
             IN  IF ok = {} THEN None
                 ELSE LET clean == CollapseWs(Strip(paragraphs[Min(ok)]))
                      IN  Some(Str(Truncate(clean, DescLimit), 1,
                                   Len(Truncate(clean, DescLimit))))

ServiceVocabulary ==
    << "tuinaanleg", "tuinonderhoud", "snoeien", "grasmaaien", "bestrating",
       "vijveraanleg", "beplanting", "schutting", "terras", "gazon", "haag",
       "heggen", "bomen", "struiken", "groenonderhoud", "tuinontwerp",
       "tuinrenovatie", "sierbestrating", "drainage", "beregening" >>

service_keywords == [k \in 1..Len(ServiceVocabulary) |-> Chars(ServiceVocabulary[k])]

\* MatchedServices that appends a keyword once for each place it occurs at
MatchedServicesPerOccurrence(c) ==
    LET idx   == [k \in 1..Len(service_keywords) |-> k]
        hit   == SelectSeq(idx, LAMBDA k : Contains(c, service_keywords[k]))
        twice == SelectSeq(hit, LAMBDA k :
                     Cardinality(Occurrences(c, service_keywords[k], 1)) > 1)
    IN  [j \in 1..Len(hit) |-> ServiceVocabulary[hit[j]]]
        \o [j \in 1..Len(twice) |-> ServiceVocabulary[twice[j]]]

\* MatchedServices in the order in which the keywords first occur in the text
MatchedServicesTextOrder(c) ==
    LET hit      == {k \in 1..Len(service_keywords) : Contains(c, service_keywords[k])}
        first(k) == Min(Occurrences(c, service_keywords[k], 1))
        before(k) == {h \in hit : first(h) < first(k) \/ (first(h) = first(k) /\ h < k)}
    IN  [j \in 1..Cardinality(hit) |->
            ServiceVocabulary[CHOOSE k \in hit : Cardinality(before(k)) = j - 1]]

\* the keywords found in the text, in the order of the list
MatchedServices(c) ==
    LET idx == [k \in 1..Len(service_keywords) |-> k]
        hit == SelectSeq(idx, LAMBDA k : Contains(c, service_keywords[k]))
    IN  [j \in 1..Len(hit) |-> ServiceVocabulary[hit[j]]]

\* _extract_services without the limit of 10
ExtractServicesUncapped(c) == MatchedServices(c)

\* c is the lower-cased content
_extract_services(c) == Truncate(MatchedServices(c), ServiceLimit)

\* (keyword, label)
SpecVocabulary ==
    << <<"moderne tuinen", "moderne tuinen">>,
       <<"klassieke tuinen", "klassieke tuinen">>,
       <<"kleine tuinen", "kleine tuinen">>,
       <<"grote tuinen", "grote tuinen">>,
       <<"duurzaam", "duurzaam">>,
       <<"ecologisch", "ecologisch">>,
       <<"onderhoudsvri", "onderhoudsvrij">>,
       <<"kindvriendel", "kindvriendelijk">>,
       <<"zakelijk", "zakelijke tuinen">>,
       <<"particulier", "particuliere tuinen">>,
       <<"natuurlijk", "natuurlijke tuinen">> >>

\* c is the lower-cased content
spec_keywords == [k \in 1..Len(SpecVocabulary) |-> Chars(SpecVocabulary[k][1])]

_extract_specializations(c) ==
    LET idx == [k \in 1..Len(spec_keywords) |-> k]
        hit == SelectSeq(idx, LAMBDA k : Contains(c, spec_keywords[k]))
    IN  Truncate([j \in 1..Len(hit) |-> SpecVocabulary[hit[j]][2]], SpecLimit)

project_patterns == <<Chars("project"), Chars("realisatie"), Chars("uitgevoerd")>>

\* re.search(keyword [:\s]+ ([^.\n]{20,100}), re.IGNORECASE) from position pos
\* on: None, or <<first, last>>, the positions of group 1.  [:\s]+ is greedy and
\* gives characters back (keeping one) until 20 characters other than "." and
\* "\n" follow it; the group then takes up to 100 of them.
SearchProject(c, lc, keyword, pos) ==
    LET from(i)  == i + Len(keyword)
        begin(i) == {q \in (from(i) + 1)..RunEnd(c, from(i), ColonSpace) :
                        StopAt(c, q, {".", "\n"}) - q >= ProjMinLen}
        found    == {i \in Occurrences(lc, keyword, pos) : begin(i) # {}}
    IN  IF found = {} THEN None
        ELSE LET q == Max(begin(Min(found)))
                 e == StopAt(c, q, {".", "\n"})
             IN  Some(<<q, Min({e - 1, q + ProjMaxLen - 1})>>)

\* re.findall(pattern, content, re.IGNORECASE)[:n]: the groups of the first n
\* matches, each search starting where the match before it ended
RECURSIVE FindProjects(_, _, _, _, _)
FindProjects(c, lc, keyword, pos, n) ==
    IF n = 0 THEN <<>>
    ELSE LET m == SearchProject(c, lc, keyword, pos)
         IN  IF m = None THEN <<>>
             ELSE <<SubSeq(c, m[1][1], m[1][2])>>
                  \o FindProjects(c, lc, keyword, m[1][2] + 1, n - 1)

\* AppendProjects without the test "clean not in projects"
RECURSIVE AppendProjectsNoDedup(_, _)
AppendProjectsNoDedup(projects, matches) ==
    IF matches = <<>> THEN projects
    ELSE LET cc    == CollapseWs(Strip(Head(matches)))
             clean == Str(cc, 1, Len(cc))
         IN  AppendProjectsNoDedup(
                 IF clean # "" THEN Append(projects, clean) ELSE projects,
                 Tail(matches))

\* the inner loop of _extract_projects: append the matches that are not empty
\* and not yet in the list
RECURSIVE AppendProjects(_, _)
AppendProjects(projects, matches) ==
    IF matches = <<>> THEN projects
    ELSE LET cc    == CollapseWs(Strip(Head(matches)))
             clean == Str(cc, 1, Len(cc))
         IN  AppendProjects(
                 IF clean # "" /\ \A k \in 1..Len(projects) : projects[k] # clean
                 THEN Append(projects, clean) ELSE projects,
                 Tail(matches))

\* the outer loop of _extract_projects, from pattern p on
RECURSIVE CollectProjects(_, _, _, _)
CollectProjects(c, lc, projects, p) ==
    IF p > Len(project_patterns) THEN projects
    ELSE CollectProjects(c, lc,
             AppendProjects(projects,
                 FindProjects(c, lc, project_patterns[p], 1, ProjectsPerPattern)),
             p + 1)

\* _extract_projects that cuts the matches of the three patterns at 5 before
\* it drops the empty and the repeated ones
ExtractProjectsCapBeforeDedup(c) ==
    LET lc  == Lower(c)
        all == FindProjects(c, lc, project_patterns[1], 1, ProjectsPerPattern)
               \o FindProjects(c, lc, project_patterns[2], 1, ProjectsPerPattern)
               \o FindProjects(c, lc, project_patterns[3], 1, ProjectsPerPattern)
    IN  AppendProjects(<<>>, Truncate(all, ProjectLimit))

_extract_projects(c) == Truncate(CollectProjects(c, Lower(c), <<>>, 1), ProjectLimit)

\* [A-Z][a-z]+ (?:van (?:de |den |der )?)?[A-Z][a-z]+ at position p: the position
\* after the name, or 0 when no name starts at p
NameEnd(c, p) ==
    LET r1 == RunEnd(c, p + 1, LowerSet)
        s1 == r1 + 1
        s2 == IF MatchAt(c, s1, Chars("van ")) THEN s1 + 4 ELSE s1
        s3 == IF s2 = s1 THEN s1
              ELSE IF MatchAt(c, s2, Chars("de ")) THEN s2 + 3
              ELSE IF MatchAt(c, s2, Chars("den ")) THEN s2 + 4
              ELSE IF MatchAt(c, s2, Chars("der ")) THEN s2 + 4
              ELSE s2
        r2 == RunEnd(c, s3 + 1, LowerSet)
    IN  IF /\ p <= Len(c) /\ c[p] \in UpperSet
           /\ r1 > p + 1
           /\ r1 <= Len(c) /\ c[r1] = " "
           /\ s3 <= Len(c) /\ c[s3] \in UpperSet
           /\ r2 > s3 + 1
        THEN r2 ELSE 0

\* the owner patterns, in the order of the list: the literals one of which
\* starts the match, and whether [:\s]+ follows it (a name follows at once if not)
owner_patterns ==
    << [words |-> <<Chars("eigenaar")>>, sep |-> TRUE],
       [words |-> <<Chars("contact")>>, sep |-> TRUE],
       [words |-> <<Chars("door "), Chars("bij ")>>, sep |-> FALSE] >>

\* where the name of the owner pattern pat starts when its literal w is at
\* position i, or 0
OwnerNameStart(c, i, w, pat) ==
    LET after == i + Len(w)
        sep   == RunEnd(c, after, ColonSpace)
    IN  IF ~pat.sep THEN after
        ELSE IF sep > after THEN sep
        ELSE 0

\* re.search(pattern, content), case-sensitive: None or the name of group 1
SearchOwner(c, pat) ==
    LET \* <<i, s>>: the pattern matches at position i with the name at s
        found == UNION {{<<i, OwnerNameStart(c, i, pat.words[k], pat)>> :
                            i \in {j \in Occurrences(c, pat.words[k], 1) :
                                /\ OwnerNameStart(c, j, pat.words[k], pat) # 0
                                /\ NameEnd(c, OwnerNameStart(c, j, pat.words[k], pat)) # 0}} :
                        k \in 1..Len(pat.words)}
    IN  IF found = {} THEN None
        ELSE LET m == CHOOSE m \in found : \A o \in found : m[1] <= o[1]
             IN  Some(Str(c, m[2], NameEnd(c, m[2]) - 1))

\* _extract_owner_name that tries the patterns in the opposite order
ExtractOwnerLastPatternFirst(c) ==
    FirstMatch([p \in 1..Len(owner_patterns) |->
                   SearchOwner(c, owner_patterns[Len(owner_patterns) + 1 - p])])

_extract_owner_name(c) ==
    FirstMatch([p \in 1..Len(owner_patterns) |-> SearchOwner(c, owner_patterns[p])])

\* int() of a run of decimal digits
RECURSIVE ParseInt(_)
ParseInt(d) ==
    IF d = <<>> THEN 0
    ELSE 10 * ParseInt(SubSeq(d, 1, Len(d) - 1))
         + (CHOOSE v \in 0..9 : Chars("0123456789")[v + 1] = d[Len(d)])

\* one of the literals occurs at position i
AnyAt(c, i, words) == \E k \in 1..Len(words) : MatchAt(c, i, words[k])

CountWords == <<Chars("medewerkers"), Chars("werknemers"), Chars("vakmensen"), Chars("collega")>>

TeamWords == <<Chars("van"), Chars("met")>>

ManWords == <<Chars("sterk"), Chars("team")>>

\* re.search of the numeric pattern p on the lower-cased content: None or the
\* digits of group 1
\*   1  (\d+)\s*(?:medewerkers|werknemers|vakmensen|collega)
\*   2  team\s*(?:van|met)\s*(\d+)
\*   3  (\d+)\s*man\s*(?:sterk|team)
SearchEmployees(c, p) ==
    LET digits         == {i \in 1..Len(c) : c[i] \in DigitSet}
        afterDigits(i) == RunEnd(c, RunEnd(c, i, DigitSet), WhiteSpace)
        afterMan(i)    == RunEnd(c, afterDigits(i) + 3, WhiteSpace)
        afterTeam(i)   == RunEnd(c, i + 4, WhiteSpace)
        number(i)      == RunEnd(c, afterTeam(i) + 3, WhiteSpace)
        found ==
            CASE p = 1 -> {i \in digits : AnyAt(c, afterDigits(i), CountWords)}
              [] p = 2 -> {i \in Occurrences(c, Chars("team"), 1) :
                              /\ AnyAt(c, afterTeam(i), TeamWords)
                              /\ number(i) <= Len(c) /\ c[number(i)] \in DigitSet}
              [] p = 3 -> {i \in digits :
                              /\ MatchAt(c, afterDigits(i), Chars("man"))
                              /\ AnyAt(c, afterMan(i), ManWords)}
    IN  IF found = {} THEN None
        ELSE LET s == IF p = 2 THEN number(Min(found)) ELSE Min(found)
             IN  Some(SubSeq(c, s, RunEnd(c, s, DigitSet) - 1))

EmployeePatterns == 3

\* _estimate_employees that looks at the indicator words before the numbers
EstimateEmployeesHintsFirst(c) ==
    LET match == FirstMatch([p \in 1..EmployeePatterns |-> SearchEmployees(c, p)])
    IN  IF Contains(c, Chars("eenmanszaak")) \/ Contains(c, Chars("zzp")) THEN Some(1)
        ELSE IF Contains(c, Chars("klein team")) THEN Some(3)
        ELSE IF Contains(c, Chars("groot team")) THEN Some(10)
        ELSE IF match # None THEN Some(ParseInt(match[1]))
        ELSE None

\* _estimate_employees that tests the indicator words in the opposite order
EstimateEmployeesGrootFirst(c) ==
    LET match == FirstMatch([p \in 1..EmployeePatterns |-> SearchEmployees(c, p)])
    IN  IF match # None THEN Some(ParseInt(match[1]))
        ELSE IF Contains(c, Chars("groot team")) THEN Some(10)
        ELSE IF Contains(c, Chars("klein team")) THEN Some(3)
        ELSE IF Contains(c, Chars("eenmanszaak")) \/ Contains(c, Chars("zzp")) THEN Some(1)
        ELSE None

\* c is the lower-cased content
_estimate_employees(c) ==
    LET match == FirstMatch([p \in 1..EmployeePatterns |-> SearchEmployees(c, p)])
    IN  IF match # None THEN Some(ParseInt(match[1]))
        ELSE IF Contains(c, Chars("eenmanszaak")) \/ Contains(c, Chars("zzp")) THEN Some(1)
        ELSE IF Contains(c, Chars("klein team")) THEN Some(3)
        ELSE IF Contains(c, Chars("groot team")) THEN Some(10)
        ELSE None

\* _extract_business_info that returns the dict of defaults for an empty
\* text, with the text itself as the description
ExtractBusinessInfoDefaults(content) ==
    IF content = ""
    THEN [ description       |-> Some(content),
           services          |-> <<>>,
           specializations   |-> <<>>,
           recent_projects   |-> <<>>,
           owner_name        |-> None,
           employee_estimate |-> None ]
    ELSE LET c             == Chars(content)
             content_lower == Lower(c)
         IN  [ description       |-> _extract_description(c),
               services          |-> _extract_services(content_lower),
               specializations   |-> _extract_specializations(content_lower),
               recent_projects   |-> _extract_projects(c),
               owner_name        |-> _extract_owner_name(c),
               employee_estimate |-> _estimate_employees(content_lower) ]

\* content is a string
_extract_business_info(content) ==
    IF content = "" THEN EmptyDict
    ELSE LET c             == Chars(content)
             content_lower == Lower(c)
         IN  [ description       |-> _extract_description(c),
               services          |-> _extract_services(content_lower),
               specializations   |-> _extract_specializations(content_lower),
               recent_projects   |-> _extract_projects(c),
               owner_name        |-> _extract_owner_name(c),
               employee_estimate |-> _estimate_employees(content_lower) ]

\* str.join: the pages with sep between them
RECURSIVE Join(_, _)
Join(sep, items) ==
    IF items = <<>> THEN ""
    ELSE IF Len(items) = 1 THEN items[1]
    ELSE items[1] \o sep \o Join(sep, Tail(items))

\* crawl_website(url, ...): the dict it returns.  items are the bodies (markdown
\* or text) of the dataset items of the actor run; raises says that the actor
\* call or the dataset read raised.
crawl_website(url, raises, items) ==
    IF url = "" THEN EmptyDict
    ELSE IF raises THEN EmptyDict
    ELSE _extract_business_info(Join("\n\n", items))

-----------------------------------------------------------------------------
(* The crawled pages the extractor is run on *)

MaxPages == 2

OwnerPage == "Eigenaar: Jan van der Berg"

ContactPage ==
    "Voor contact: Kees Jansen, eigenaar: Piet van Dijk. Aangelegd door Anna Bakker met een team van 12"

TeamPage == "team van 5 medewerkers"

ZzpPage == "wij zijn een zzp-bedrijf"

SizePage == "Geen groot team maar een klein team"

ManPage == "Al jaren 3 man sterk"

AboutSentence == "Wij zijn een hoveniersbedrijf gespecialiseerd in tuinonderhoud en bestrating."

AboutPage == "Over ons: " \o AboutSentence

HeadedAboutPage ==
    "## OVER ONS\n\n  Als  eenmanszaak\tleggen wij tuinen aan:  van ontwerp tot oplevering.  \nBel ons"

ProjectSentence == "Project: Tuinrenovatie in Den Haag voltooid in 2023."

RepeatedProjectPage == ProjectSentence \o " " \o ProjectSentence \o "\n" \o ProjectSentence

PortfolioPage ==
    "# Portfolio\n"
    \o "Project: Aanleg  van een vijver in Delft. "
    \o "project:\tAanleg van een vijver in Delft\n"
    \o "Project: aanleg van een vijver in Delft. "
    \o "Project: Nieuwe oprit met klinkers in Gouda. "
    \o "Project: Dit vierde project telt niet mee. "
    \o "Realisatie: Aanleg van een vijver in Delft. "
    \o "Realisatie: Daktuin voor een kantoor in Leiden. "
    \o "Realisatie: Schooltuin met moestuin in Zoetermeer. "
    \o "Uitgevoerd: Groot onderhoud van het park in Rijswijk. "
    \o "Uitgevoerd: Speeltuin in een woonwijk in Pijnacker."

ServicesPage ==
    "Ons groot team verzorgt beregening, drainage en sierbestrating,  maar ook "
    \o "tuinrenovatie en tuinontwerp.\nDaarnaast doen wij groenonderhoud: struiken, "
    \o "bomen en heggen snoeien,\t\thet gazon en grasmaaien, een terras of schutting, "
    \o "beplanting, vijveraanleg, tuinonderhoud en tuinaanleg.   Wij maken moderne "
    \o "tuinen, klassieke tuinen, kleine tuinen en grote tuinen; altijd duurzaam, "
    \o "ecologisch en onderhoudsvrij, kindvriendelijk waar het kan.  \n Zowel zakelijk "
    \o "als particulier bent u bij ons aan het goede adres voor een natuurlijk "
    \o "resultaat waar u nog jaren plezier van heeft in elk seizoen van het jaar."

Blocks ==
    { OwnerPage, ContactPage, TeamPage, ZzpPage, SizePage, ManPage, AboutPage,
      HeadedAboutPage, RepeatedProjectPage, PortfolioPage, ServicesPage }

\* the page lists of at most MaxPages pages
PageLists == UNION {[1..n -> Blocks] : n \in 0..MaxPages}

SiteUrl == "tuin.nl"

-----------------------------------------------------------------------------
(* The extractor specification: one crawl of one website *)

NoRun == [active |-> FALSE]

\* no GET /leads request was made
NoListing == [phase |-> "idle"]

Init ==
    /\ pages \in PageLists
    /\ pc = "crawl"
    /\ result = EmptyDict
    /\ leads = <<>>
    /\ created = 0
    /\ run = NoRun
    /\ enriched_count = 0
    /\ calls = <<>>
    /\ listing = NoListing

\* crawl_website, the actor run succeeds
Crawl ==
    /\ pc = "crawl"
    /\ result' = crawl_website(SiteUrl, FALSE, pages)
    /\ pc' = "done"
    /\ UNCHANGED <<pages, leads, created, run, enriched_count, calls, listing>>

\* crawl_website, the actor run raises
CrawlFails ==
    /\ pc = "crawl"
    /\ result' = crawl_website(SiteUrl, TRUE, pages)
    /\ pc' = "failed"
    /\ UNCHANGED <<pages, leads, created, run, enriched_count, calls, listing>>

Next == Crawl \/ CrawlFails

Spec == Init /\ [][Next]_vars

-----------------------------------------------------------------------------
(* lead_store.py: the store.  A lead id is the number of the lead in the order
   of creation, and so is its scraped_at; the other time stamps are Now. *)

MaxLeads == 2

Now == "now"

\* create_lead: the row of a new lead
NewLead(id, website) ==
    [ id                 |-> id,
      source             |-> "google_maps",
      company_name       |-> "Hoveniersbedrijf",
      address            |-> "Dorpsstraat 1",
      city               |-> "Delft",
      postal_code        |-> "",
      phone              |-> None,
      website            |-> website,
      google_rating      |-> None,
      review_count       |-> None,
      owner_name         |-> None,
      contact_person     |-> None,
      description        |-> None,
      services           |-> <<>>,
      specializations    |-> <<>>,
      recent_projects    |-> <<>>,
      employee_estimate  |-> None,
      pitch              |-> None,
      pitch_generated_at |-> None,
      call_status        |-> "not_called",
      call_notes         |-> None,
      called_at          |-> None,
      scraped_at         |-> id,
      enriched_at        |-> None,
      status             |-> "scraped" ]

\* create_leads_batch: the store with a lead for each website of the list
create_leads_batch(store, count, websites) ==
    [id \in DOMAIN store \cup (count + 1)..(count + Len(websites)) |->
        IF id \in DOMAIN store THEN store[id] ELSE NewLead(id, websites[id - count])]

get_lead(store, lead_id) ==
    IF lead_id \in DOMAIN store THEN Some(store[lead_id]) ELSE None

\* "if lead.website": the website is neither None nor ""
HasWebsite(lead) == lead.website # None /\ lead.website # Some("")

\* the ids of S, the latest first: ORDER BY scraped_at DESC
RECURSIVE Descending(_)
Descending(S) == IF S = {} THEN <<>> ELSE <<Max(S)>> \o Descending(S \ {Max(S)})

\* get_leads(status=..., has_website=...); status None and has_website None
\* leave the filter out
get_leads(store, status, has_website) ==
    LET ids == {id \in DOMAIN store :
                   /\ status # None => store[id].status = status[1]
                   /\ has_website = Some(TRUE) => HasWebsite(store[id])
                   /\ has_website = Some(FALSE) => ~HasWebsite(store[id])}
        order == Descending(ids)
    IN  [k \in 1..Len(order) |-> store[order[k]]]

\* update_lead_enrichment that leaves a stored value where the new one is absent
UpdateEnrichmentKeepsPresent(store, lead_id, description, services, specializations, recent_projects, owner_name, employee_estimate) ==
    IF lead_id \notin DOMAIN store THEN store
    ELSE [store EXCEPT ![lead_id] =
            [@ EXCEPT !.description       = IF description = None THEN @ ELSE description,
                      !.services          = IF services = <<>> THEN @ ELSE services,
                      !.specializations   = IF specializations = <<>> THEN @ ELSE specializations,
                      !.recent_projects   = IF recent_projects = <<>> THEN @ ELSE recent_projects,
                      !.owner_name        = IF owner_name = None THEN @ ELSE owner_name,
                      !.employee_estimate = IF employee_estimate = None THEN @
                                            ELSE employee_estimate,
                      !.enriched_at       = Some(Now),
                      !.status            = "enriched"]]

\* update_lead_enrichment that writes the row anew, the pitch left out
UpdateEnrichmentReplacesRow(store, lead_id, description, services, specializations, recent_projects, owner_name, employee_estimate) ==
    IF lead_id \notin DOMAIN store THEN store
    ELSE [store EXCEPT ![lead_id] =
            [@ EXCEPT !.description        = description,
                      !.services           = services,
                      !.specializations    = specializations,
                      !.recent_projects    = recent_projects,
                      !.owner_name         = owner_name,
                      !.employee_estimate  = employee_estimate,
                      !.pitch              = None,
                      !.pitch_generated_at = None,
                      !.enriched_at        = Some(Now),
                      !.status             = "enriched"]]

update_lead_enrichment(store, lead_id, description, services, specializations, recent_projects, owner_name, employee_estimate) ==
    IF lead_id \notin DOMAIN store THEN store
    ELSE [store EXCEPT ![lead_id] =
            [@ EXCEPT !.description       = description,
                      !.services          = services,
                      !.specializations   = specializations,
                      !.recent_projects   = recent_projects,
                      !.owner_name        = owner_name,
                      !.employee_estimate = employee_estimate,
                      !.enriched_at       = Some(Now),
                      !.status            = "enriched"]]

update_lead_pitch(store, lead_id, pitch) ==
    IF lead_id \notin DOMAIN store THEN store
    ELSE [store EXCEPT ![lead_id] =
            [@ EXCEPT !.pitch              = Some(pitch),
                      !.pitch_generated_at = Some(Now),
                      !.status             = "pitch_ready"]]

delete_lead(store, lead_id) == [id \in DOMAIN store \ {lead_id} |-> store[id]]

-----------------------------------------------------------------------------
(* routes.py: the scrape and enrich requests, one loop iteration a step *)

\* a site with an owner name and a staff of 0
ZeroStaffPage == "De eigenaar: Piet van Dijk werkt alleen, met 0 medewerkers"

\* what a crawl of a website can do: raise, or deliver these pages
Outcomes ==
    { [raises |-> TRUE, items |-> <<>>] }
    \cup { [raises |-> FALSE, items |-> p] : p \in {<<>>, <<TeamPage>>, <<ZeroStaffPage>>} }

\* crawl_website for each outcome
Crawled == [o \in Outcomes |-> crawl_website(SiteUrl, o.raises, o.items)]

\* the store after "if content: update_lead_enrichment(...)" of a loop iteration,
\* without the test
StoreAfterCrawlAlways(store, lead, content) ==
    update_lead_enrichment(store, lead.id,
        Get(content, "description", None),
        Get(content, "services", <<>>),
        Get(content, "specializations", <<>>),
        Get(content, "recent_projects", <<>>),
        Get(content, "owner_name", None),
        Get(content, "employee_estimate", None))

\* the store after "if content: update_lead_enrichment(...)" of a loop iteration
StoreAfterCrawl(store, lead, content) ==
    IF content # EmptyDict
    THEN update_lead_enrichment(store, lead.id,
             Get(content, "description", None),
             Get(content, "services", <<>>),
             Get(content, "specializations", <<>>),
             Get(content, "recent_projects", <<>>),
             Get(content, "owner_name", None),
             Get(content, "employee_estimate", None))
    ELSE store

\* enriched_count after the iteration
CountAfterCrawl(count, content) == IF content # EmptyDict THEN count + 1 ELSE count

\* the websites of the businesses a maps scrape finds
Websites == {None, Some(SiteUrl)}

\* min_employees and max_employees of a scrape request
EmployeeBounds == {None, Some(0), Some(3)}

\* lead_ids of an enrich request: None, or a list of ids
LeadIdLists == {None} \cup {Some(<<id>>) : id \in 1..MaxLeads}
                      \cup {Some(<<a, b>>) : a, b \in 1..MaxLeads}

\* POST /scrape up to the auto-enrich loop: the maps scrape and create_leads_batch
ScrapeStart(websites, auto_enrich, min_employees, max_employees) ==
    /\ ~run.active
    /\ created + Len(websites) <= MaxLeads
    /\ leads' = create_leads_batch(leads, created, websites)
    /\ created' = created + Len(websites)
    /\ run' = [ active        |-> TRUE,
                op            |-> "scrape",
                leads         |-> [k \in 1..Len(websites) |-> NewLead(created + k, websites[k])],
                i             |-> IF auto_enrich THEN 1 ELSE Len(websites) + 1,
                auto_enrich   |-> auto_enrich,
                min_employees |-> min_employees,
                max_employees |-> max_employees ]
    /\ enriched_count' = 0
    /\ UNCHANGED <<pages, pc, result, calls, listing>>

\* one iteration of the loop "for lead in leads" of POST /scrape and of
\* POST /enrich: skip a lead without website, else crawl and store
CrawlLead(o) ==
    /\ run.active
    /\ run.i <= Len(run.leads)
    /\ LET lead == run.leads[run.i]
       IN  IF ~HasWebsite(lead)
           THEN UNCHANGED <<pages, pc, result, leads, enriched_count>>
           ELSE /\ pages' = o.items
                /\ pc' = IF o.raises THEN "failed" ELSE "done"
                /\ result' = Crawled[o]
                /\ leads' = StoreAfterCrawl(leads, lead, Crawled[o])
                /\ enriched_count' = CountAfterCrawl(enriched_count, Crawled[o])
    /\ run' = [run EXCEPT !.i = @ + 1]
    /\ UNCHANGED <<created, calls, listing>>

\* the employee filter of POST /scrape: the store without the leads it deletes
FilterByEmployees(store, min_employees, max_employees) ==
    LET should_delete(lead) ==
            /\ lead.employee_estimate # None
            /\ lead.employee_estimate[1] # 0
            /\ \/ /\ min_employees # None
                  /\ min_employees[1] # 0
                  /\ lead.employee_estimate[1] < min_employees[1]
               \/ /\ max_employees # None
                  /\ max_employees[1] # 0
                  /\ lead.employee_estimate[1] > max_employees[1]
    IN  [id \in {i \in DOMAIN store : ~should_delete(store[i])} |-> store[id]]

\* POST /scrape after the loop: the employee filter and the response
ScrapeFinish ==
    /\ run.active
    /\ run.op = "scrape"
    /\ run.i > Len(run.leads)
    /\ leads' = IF /\ run.auto_enrich
                   /\ (run.min_employees # None \/ run.max_employees # None)
                THEN FilterByEmployees(leads, run.min_employees, run.max_employees)
                ELSE leads
    /\ run' = NoRun
    /\ UNCHANGED <<pages, pc, result, created, enriched_count, calls, listing>>

\* the leads POST /enrich works on
EnrichSelection(store, lead_ids) ==
    IF lead_ids # None /\ lead_ids[1] # <<>>
    THEN LET known == SelectSeq(lead_ids[1], LAMBDA id :
                          get_lead(store, id) # None /\ HasWebsite(store[id]))
         IN  [k \in 1..Len(known) |-> store[known[k]]]
    ELSE get_leads(store, Some("scraped"), Some(TRUE))

\* POST /enrich up to the loop
EnrichStart(lead_ids) ==
    /\ ~run.active
    /\ run' = [ active |-> TRUE,
                op     |-> "enrich",
                leads  |-> EnrichSelection(leads, lead_ids),
                i      |-> 1 ]
    /\ enriched_count' = 0
    /\ UNCHANGED <<pages, pc, result, leads, created, calls, listing>>

\* POST /enrich after the loop: the response
EnrichFinish ==
    /\ run.active
    /\ run.op = "enrich"
    /\ run.i > Len(run.leads)
    /\ run' = NoRun
    /\ UNCHANGED <<pages, pc, result, leads, created, enriched_count, calls, listing>>

\* POST /generate-pitch/{lead_id}, for a lead that is stored
GeneratePitch(lead_id) ==
    /\ get_lead(leads, lead_id) # None
    /\ leads' = update_lead_pitch(leads, lead_id, "pitch")
    /\ UNCHANGED <<pages, pc, result, created, run, enriched_count, calls, listing>>

\* DELETE /leads/{lead_id}, for a lead that is stored
DeleteLead(lead_id) ==
    /\ lead_id \in DOMAIN leads
    /\ leads' = delete_lead(leads, lead_id)
    /\ UNCHANGED <<pages, pc, result, created, run, enriched_count, calls, listing>>

InitApi ==
    /\ pages = <<>>
    /\ pc = "crawl"
    /\ result = EmptyDict
    /\ leads = <<>>
    /\ created = 0
    /\ run = NoRun
    /\ enriched_count = 0
    /\ calls = <<>>
    /\ listing = NoListing

NextApi ==
    \/ \E n \in 0..MaxLeads : \E websites \in [1..n -> Websites] :
        \E auto_enrich \in BOOLEAN : \E min_employees, max_employees \in EmployeeBounds :
            ScrapeStart(websites, auto_enrich, min_employees, max_employees)
    \/ \E o \in Outcomes : CrawlLead(o)
    \/ ScrapeFinish
    \/ \E lead_ids \in LeadIdLists : EnrichStart(lead_ids)
    \/ EnrichFinish
    \/ \E lead_id \in 1..MaxLeads : GeneratePitch(lead_id)
    \/ \E lead_id \in 1..MaxLeads : DeleteLead(lead_id)

SpecApi == InitApi /\ [][NextApi]_vars

-----------------------------------------------------------------------------
(* Properties of the extractor, under Spec *)

\* the text the extractor was run on
Content == Join("\n\n", pages)

HasPage(p) == \E k \in 1..Len(pages) : pages[k] = p

Extracted == pc = "done" /\ result # EmptyDict

NoDuplicates(list) ==
    \A i, j \in 1..Len(list) : i # j => list[i] # list[j]

\* C1: on a text that contains "Eigenaar: Jan van der Berg" and no other owner,
\* contact, door or bij phrase, the owner name extracted is "Jan van der Berg".
C1_OwnerAfterCapitalisedKeyword ==
    (/\ pc = "done"
     /\ HasPage(OwnerPage)
     /\ ~HasPage(ContactPage)
     /\ ~HasPage(ServicesPage))
    => Get(result, "owner_name", None) = Some("Jan van der Berg")

\* C2: for the empty text the extractor returns a result of which description,
\* owner_name and employee_estimate are absent and services, specializations
\* and recent_projects are empty.
C2_EmptyTextGivesNothing ==
    (pc = "done" /\ Content = "")
    => /\ Get(result, "description", None) = None
       /\ Get(result, "owner_name", None) = None
       /\ Get(result, "employee_estimate", None) = None
       /\ Get(result, "services", <<>>) = <<>>
       /\ Get(result, "specializations", <<>>) = <<>>
       /\ Get(result, "recent_projects", <<>>) = <<>>

C2_Witness == pc = "done" /\ Content = "" /\ result = EmptyDict

\* C3: the result has at most 10 services, at most 5 specializations and at
\* most 5 recent projects.
C3_ListLimits ==
    Extracted
    => /\ Len(result.services) <= ServiceLimit
       /\ Len(result.specializations) <= SpecLimit
       /\ Len(result.recent_projects) <= ProjectLimit

\* all 20 service keywords, 11 specialization keywords and 6 distinct projects
\* occur in the text, and each list is filled up to its limit
C3_Witness ==
    /\ Extracted
    /\ pages = <<ServicesPage, PortfolioPage>>
    /\ Len(MatchedServices(Lower(Chars(Content)))) > ServiceLimit
    /\ Len(result.services) = ServiceLimit
    /\ Len(result.specializations) = SpecLimit
    /\ Len(result.recent_projects) = ProjectLimit

\* C4: the services list has no duplicate entry and every entry is one of the
\* 20 keywords of the vocabulary.
C4_ServicesFromVocabulary ==
    Extracted
    => /\ NoDuplicates(result.services)
       /\ \A i \in 1..Len(result.services) :
              \E k \in 1..Len(ServiceVocabulary) : result.services[i] = ServiceVocabulary[k]
       /\ Len(ServiceVocabulary) = 20

\* the keywords of the page occur twice in the text and once in the list
C4_Witness ==
    /\ Extracted
    /\ pages = <<AboutPage, AboutPage>>
    /\ result.services = <<"tuinonderhoud", "bestrating">>

\* C5: recent_projects holds no two equal strings, and the text that is one
\* project sentence three times gives exactly one entry.
C5_ProjectsDeduplicated ==
    Extracted
    => /\ NoDuplicates(result.recent_projects)
       /\ pages = <<RepeatedProjectPage>> => Len(result.recent_projects) = 1

C5_Witness ==
    /\ Extracted
    /\ pages = <<RepeatedProjectPage>>
    /\ result.recent_projects = <<"Tuinrenovatie in Den Haag voltooid in 2023">>

\* no two whitespace characters in a row
SingleSpaced(str) ==
    LET c == Chars(str)
    IN  \A i \in 1..(Len(c) - 1) : ~(c[i] \in WhiteSpace /\ c[i + 1] \in WhiteSpace)

\* C6: a description that is present has at most 500 characters and no run of
\* two or more whitespace characters, whether it comes from a section phrase
\* or from the first long paragraph.
C6_DescriptionShape ==
    (Extracted /\ result.description # None)
    => /\ Len(result.description[1]) <= DescLimit
       /\ SingleSpaced(result.description[1])

\* the paragraph has more than 500 characters and runs of whitespace; the
\* description is cut at 500
C6_Witness ==
    /\ Extracted
    /\ pages = <<ServicesPage>>
    /\ Len(ServicesPage) > DescLimit
    /\ ~SingleSpaced(ServicesPage)
    /\ result.description # None
    /\ Len(result.description[1]) = DescLimit

\* C7: the estimate is the integer of the first numeric pattern, in the order
\* of the list, that matches anywhere in the text, whatever indicator words the
\* text holds.  Of the pages, TeamPage alone matches pattern 1 (5), ContactPage
\* matches pattern 2 (12) and ManPage alone matches pattern 3 (3).
C7_FirstNumericPatternWins ==
    Extracted
    => LET lc    == Lower(Chars(Content))
           m(p)  == SearchEmployees(lc, p)
           est   == result.employee_estimate
       IN  /\ m(1) # None => est = Some(ParseInt(m(1)[1]))
           /\ (m(1) = None /\ m(2) # None) => est = Some(ParseInt(m(2)[1]))
           /\ (m(1) = None /\ m(2) = None /\ m(3) # None) => est = Some(ParseInt(m(3)[1]))
           /\ HasPage(TeamPage) => est = Some(5)
           /\ (~HasPage(TeamPage) /\ HasPage(ContactPage)) => est = Some(12)
           /\ (~HasPage(TeamPage) /\ ~HasPage(ContactPage) /\ HasPage(ManPage))
                  => est = Some(3)

\* "zzp" comes first in the text, "team van 5 medewerkers" after it
C7_Witness ==
    /\ Extracted
    /\ pages = <<ZzpPage, TeamPage>>
    /\ result.employee_estimate = Some(5)

\* C8: when no numeric pattern matches, the estimate is 1 if the lower-cased
\* text contains "eenmanszaak" or "zzp", else 3 if it contains "klein team",
\* else 10 if it contains "groot team", else absent.
C8_IndicatorWords ==
    (Extracted /\ ~HasPage(TeamPage) /\ ~HasPage(ContactPage) /\ ~HasPage(ManPage))
    => LET lc  == Lower(Chars(Content))
           est == result.employee_estimate
       IN  /\ est = IF Contains(lc, Chars("eenmanszaak")) \/ Contains(lc, Chars("zzp"))
                    THEN Some(1)
                    ELSE IF Contains(lc, Chars("klein team")) THEN Some(3)
                    ELSE IF Contains(lc, Chars("groot team")) THEN Some(10)
                    ELSE None
           /\ pages = <<ZzpPage>> => est = Some(1)
           /\ pages = <<ZzpPage, ServicesPage>> => est = Some(1)
           /\ pages = <<SizePage>> => est = Some(3)
           /\ pages = <<ServicesPage>> => est = Some(10)
           /\ pages = <<OwnerPage>> => est = None

\* the text holds "zzp" and "groot team"
C8_Witness ==
    /\ Extracted
    /\ pages = <<ServicesPage, ZzpPage>>
    /\ Contains(Lower(Chars(Content)), Chars("groot team"))
    /\ result.employee_estimate = Some(1)

\* C11: the services list is the first 10, in the order of the vocabulary, of
\* the keywords that occur in the lower-cased text, wherever and however often
\* they occur in it.
C11_ServicesInVocabularyOrder ==
    Extracted
    => LET lc      == Lower(Chars(Content))
           hit     == {k \in 1..Len(ServiceVocabulary) :
                          Contains(lc, Chars(ServiceVocabulary[k]))}
           rank(k) == Cardinality({h \in hit : h < k})
           kept    == {k \in hit : rank(k) < 10}
       IN  /\ Len(result.services) = Cardinality(kept)
           /\ \A k \in kept : result.services[rank(k) + 1] = ServiceVocabulary[k]

\* the text names all 20 keywords, the last of the vocabulary first and twice
C11_Witness ==
    /\ Extracted
    /\ pages = <<ServicesPage, ServicesPage>>
    /\ Occurrences(Lower(Chars(Content)), Chars("beregening"), 1) # {}
    /\ Min(Occurrences(Lower(Chars(Content)), Chars("beregening"), 1))
           < Min(Occurrences(Lower(Chars(Content)), Chars("tuinaanleg"), 1))
    /\ result.services =
           << "tuinaanleg", "tuinonderhoud", "snoeien", "grasmaaien", "bestrating",
              "vijveraanleg", "beplanting", "schutting", "terras", "gazon" >>

\* the candidates of one pattern added to the list, up to 5 entries: an empty
\* candidate and one that is in the list already are passed over
RECURSIVE AccumulateUpTo5(_, _)
AccumulateUpTo5(projects, candidates) ==
    IF candidates = <<>> \/ Len(projects) >= 5 THEN projects
    ELSE LET cc    == CollapseWs(Strip(Head(candidates)))
             clean == Str(cc, 1, Len(cc))
         IN  AccumulateUpTo5(
                 IF clean = "" \/ \E k \in 1..Len(projects) : projects[k] = clean
                 THEN projects ELSE Append(projects, clean),
                 Tail(candidates))

\* the procedure that tries the patterns in the order of the list, takes the
\* first 3 matches of each and stops at 5 entries
ProjectsStoppingAt5(c) ==
    LET lc       == Lower(c)
        first3(p) == FindProjects(c, lc, project_patterns[p], 1, 3)
    IN  AccumulateUpTo5(AccumulateUpTo5(AccumulateUpTo5(<<>>, first3(1)), first3(2)), first3(3))

\* C14: the projects list the code returns (all matches collected, then cut at
\* 5) is the list of the procedure that stops accumulating at 5 entries.
C14_ProjectsAsSpecified ==
    Extracted => result.recent_projects = ProjectsStoppingAt5(Chars(Content))

\* the three patterns give more than 5 distinct projects, and a repeated one
C14_Witness ==
    /\ Extracted
    /\ HasPage(PortfolioPage)
    /\ Len(CollectProjects(Chars(Content), Lower(Chars(Content)), <<>>, 1)) > 5
    /\ Len(result.recent_projects) = 5
    /\ result.recent_projects = ProjectsStoppingAt5(Chars(Content))

-----------------------------------------------------------------------------
(* The section texts: "Over ons", a colon and a space, and one sentence on a
   single line.  The sentence is the first n words of a cycle of four-letter
   words with a gap between them, a full stop and a tail of spaces; with single
   spaces and no tail it has 5n characters. *)

MaxWords == 61

WordCycle == <<"tuin", "gras", "boom", "haag", "park">>

Word(k) == IF k = 1 THEN "Tuin" ELSE WordCycle[((k - 1) % Len(WordCycle)) + 1]

\* the first n words with gap between them, and a full stop
Sentence(n, gap) ==
    LET pieces == [k \in 1..(2 * n - 1) |-> IF k % 2 = 1 THEN Word((k + 1) \div 2) ELSE gap]
    IN  Str(pieces, 1, Len(pieces)) \o "."

Gaps == {" ", "  ", " \t"}

Tails == {"", " "}

AboutPhrases == {"Over ons", "OVER ONS", "over ons"}

\* the texts, each with its sentence and the sentence with single gaps and no tail
AboutCases ==
    { [ text     |-> ph \o ": " \o Sentence(n, gap) \o tail,
        sentence |-> Sentence(n, gap) \o tail,
        plain    |-> Sentence(n, " ") ] :
        ph \in AboutPhrases, n \in 1..MaxWords, gap \in Gaps, tail \in Tails }
    \cup { [text |-> AboutPage, sentence |-> AboutSentence, plain |-> AboutSentence] }

AboutCaseOf == [t \in {x.text : x \in AboutCases} |-> CHOOSE x \in AboutCases : x.text = t]

InitAbout ==
    /\ pages \in {<<x.text>> : x \in AboutCases}
    /\ pc = "crawl"
    /\ result = EmptyDict
    /\ leads = <<>>
    /\ created = 0
    /\ run = NoRun
    /\ enriched_count = 0
    /\ calls = <<>>
    /\ listing = NoListing

SpecAbout == InitAbout /\ [][Next]_vars

\* C9: for a text that is "Over ons", a colon and a space, and one sentence of
\* 50 to 300 characters on a single line, the description is that sentence,
\* trimmed and with its whitespace runs collapsed.
C9_SectionSentence ==
    (/\ Extracted
     /\ Len(AboutCaseOf[pages[1]].sentence) >= DescMinLen
     /\ Len(AboutCaseOf[pages[1]].sentence) <= DescMaxLen)
    => result.description = Some(AboutCaseOf[pages[1]].plain)

\* a sentence of 300 characters, with wider gaps and a tail in the text
C9_Witness ==
    /\ Extracted
    /\ Len(AboutCaseOf[pages[1]].sentence) = DescMaxLen
    /\ AboutCaseOf[pages[1]].sentence # AboutCaseOf[pages[1]].plain
    /\ result.description = Some(AboutCaseOf[pages[1]].plain)

-----------------------------------------------------------------------------
(* The description texts: pages with a section phrase and pages of paragraphs.
   No page begins or ends with a newline, so the paragraphs of the text, the
   blocks of lines between its blank lines, are the paragraphs of its pages. *)

OverOnsLine ==
    "Over ons:  Wij zijn  een familiebedrijf uit Delft\tmet liefde voor groen en oog voor detail.  "

WieZijnWijLine ==
    "WIE ZIJN WIJ: een club vakmensen die elke tuin met zorg en aandacht aanlegt."

WelkomLine ==
    "Welkom bij hoveniersbedrijf De Groene Tuin, uw specialist in de regio Delft."

\* "welkom" and 50 characters first, "over ons" and 50 characters after it
WelkomOverOnsLine ==
    "Welkom, lees hier meer over ons: wij leggen al dertig jaar tuinen aan in Delft en omstreken."

\* fewer than 50 characters after the phrase
ShortOverOnsLine == "Over ons: bel ons vandaag"

LongParagraph ==
    "Onze hoveniers  verzorgen het hele jaar door tuinen van particulieren\nen bedrijven,\tvan het eerste ontwerp tot en met de laatste plant."

HeadingParagraph ==
    "# Diensten en werkwijze van ons bedrijf, van het eerste gesprek tot de oplevering van een tuin die helemaal af is"

\* 100 characters
Paragraph100 ==
    "Elke tuin is anders en daarom beginnen wij altijd met een gesprek bij u thuis, dat kost u niets. Bel"

\* 101 characters
Paragraph101 == Paragraph100 \o "."

\* the paragraphs of SplitPage, which has two blank lines between them
SplitHead == "Tuinen"

SplitRest ==
    "# Gazons, borders, vijvers en terrassen: alles wat een tuin nodig heeft leggen wij voor u aan in de regio"

SplitPage == SplitHead \o "\n\n\n" \o SplitRest

\* the pages: the text, the first section phrase in the order of the list that
\* is followed by 50 characters on its line (0: none), what follows that phrase
\* trimmed and collapsed, and the paragraphs of the page
DescCases ==
    { [ text |-> OverOnsLine, phrase |-> 1, paras |-> <<OverOnsLine>>,
        capture |-> "Wij zijn een familiebedrijf uit Delft met liefde voor groen en oog voor detail." ],
      [ text |-> WieZijnWijLine, phrase |-> 2, paras |-> <<WieZijnWijLine>>,
        capture |-> "een club vakmensen die elke tuin met zorg en aandacht aanlegt." ],
      [ text |-> WelkomLine, phrase |-> 3, paras |-> <<WelkomLine>>,
        capture |-> "bij hoveniersbedrijf De Groene Tuin, uw specialist in de regio Delft." ],
      [ text |-> WelkomOverOnsLine, phrase |-> 1, paras |-> <<WelkomOverOnsLine>>,
        capture |-> "wij leggen al dertig jaar tuinen aan in Delft en omstreken." ],
      [ text |-> ShortOverOnsLine, phrase |-> 0, paras |-> <<ShortOverOnsLine>>, capture |-> "" ],
      [ text |-> LongParagraph, phrase |-> 0, paras |-> <<LongParagraph>>, capture |-> "" ],
      [ text |-> HeadingParagraph, phrase |-> 0, paras |-> <<HeadingParagraph>>, capture |-> "" ],
      [ text |-> Paragraph100, phrase |-> 0, paras |-> <<Paragraph100>>, capture |-> "" ],
      [ text |-> Paragraph101, phrase |-> 0, paras |-> <<Paragraph101>>, capture |-> "" ],
      [ text |-> SplitPage, phrase |-> 0, paras |-> <<SplitHead, SplitRest>>, capture |-> "" ],
      [ text |-> ServicesPage, phrase |-> 0, paras |-> <<ServicesPage>>, capture |-> "" ] }

DescCaseOf == [t \in {x.text : x \in DescCases} |-> CHOOSE x \in DescCases : x.text = t]

InitDesc ==
    /\ pages \in UNION {[1..n -> {x.text : x \in DescCases}] : n \in 0..MaxPages}
    /\ pc = "crawl"
    /\ result = EmptyDict
    /\ leads = <<>>
    /\ created = 0
    /\ run = NoRun
    /\ enriched_count = 0
    /\ calls = <<>>
    /\ listing = NoListing

SpecDesc == InitDesc /\ [][Next]_vars

\* the pages of the text whose first matching section phrase is p
PhrasePages(p) == {k \in 1..Len(pages) : DescCaseOf[pages[k]].phrase = p}

\* what follows the phrase p where it first matches in the text
FirstCapture(p) == Some(DescCaseOf[pages[Min(PhrasePages(p))]].capture)

\* the paragraphs of the pages from page k on
RECURSIVE ParagraphsFrom(_)
ParagraphsFrom(k) ==
    IF k > Len(pages) THEN <<>> ELSE DescCaseOf[pages[k]].paras \o ParagraphsFrom(k + 1)

\* the paragraph trimmed, collapsed and cut at 500
Cleaned(para) ==
    LET d == Truncate(CollapseWs(Strip(Chars(para))), 500)
    IN  Str(d, 1, Len(d))

\* C12: the description comes from "over ons" if that phrase matches anywhere
\* in the text, else from "wie zijn wij" if that matches, else from "welkom" if
\* that matches, wherever in the text the matches are; it comes from a
\* paragraph only when none of the three matches.
C12_PhrasePriority ==
    Extracted
    => /\ PhrasePages(1) # {} => result.description = FirstCapture(1)
       /\ (PhrasePages(1) = {} /\ PhrasePages(2) # {}) => result.description = FirstCapture(2)
       /\ (PhrasePages(1) = {} /\ PhrasePages(2) = {} /\ PhrasePages(3) # {})
              => result.description = FirstCapture(3)
       /\ (PhrasePages(1) = {} /\ PhrasePages(2) = {} /\ PhrasePages(3) = {})
              => \/ result.description = None
                 \/ \E j \in 1..Len(ParagraphsFrom(1)) :
                        result.description = Some(Cleaned(ParagraphsFrom(1)[j]))

\* "welkom" matches on the first page, "over ons" on the second
C12_Witness ==
    /\ Extracted
    /\ pages = <<WelkomLine, OverOnsLine>>
    /\ result.description
          = Some("Wij zijn een familiebedrijf uit Delft met liefde voor groen en oog voor detail.")

\* C13: when no section phrase matches, the description is the first paragraph
\* of the text that has more than 100 characters and does not begin with "#",
\* trimmed, collapsed and cut at 500; it is absent when there is no such
\* paragraph.
C13_ParagraphFallback ==
    (Extracted /\ PhrasePages(1) = {} /\ PhrasePages(2) = {} /\ PhrasePages(3) = {})
    => LET paras == ParagraphsFrom(1)
           ok    == {j \in 1..Len(paras) :
                        Len(paras[j]) > 100 /\ SubSeq(paras[j], 1, 1) # "#"}
       IN  result.description
              = IF ok = {} THEN None ELSE Some(Cleaned(paras[Min(ok)]))

-----------------------------------------------------------------------------
(* The owner texts: pages with and without names after the owner keywords.  No
   page ends with a keyword, so a match lies within one page. *)

EigenaarLine == "De eigenaar: Piet van Dijk helpt u graag."

ContactLine == "Neem contact: Kees Jansen of bel ons."

DoorLine == "Aangelegd door Anna Bakker in 2020"

BijLine == "Werken bij Groen Totaal is leuk"

LowerNameLine == "eigenaar: jan jansen, contact via de mail"

VanDenLine == "eigenaar Els van den Heuvel"

VanDeLine == "Ontworpen door Tom van de Ven"

VanDerLine == "contact:\n Jan van der Berg"

DeLine == "eigenaar: Jan de Vries"

TwoOwnersLine == "eigenaar: Bob Smit en eigenaar: Cor Vos"

\* the pages: the text and, for the eigenaar, the contact and the door/bij
\* pattern, the name after the first keyword of the page that a name follows
OwnerCases ==
    { [ text |-> EigenaarLine,  names |-> <<Some("Piet van Dijk"), None, None>> ],
      [ text |-> ContactLine,   names |-> <<None, Some("Kees Jansen"), None>> ],
      [ text |-> DoorLine,      names |-> <<None, None, Some("Anna Bakker")>> ],
      [ text |-> BijLine,       names |-> <<None, None, Some("Groen Totaal")>> ],
      [ text |-> ContactPage,
        names |-> <<Some("Piet van Dijk"), Some("Kees Jansen"), Some("Anna Bakker")>> ],
      [ text |-> OwnerPage,     names |-> <<None, None, None>> ],
      [ text |-> LowerNameLine, names |-> <<None, None, None>> ],
      [ text |-> VanDenLine,    names |-> <<Some("Els van den Heuvel"), None, None>> ],
      [ text |-> VanDeLine,     names |-> <<None, None, Some("Tom van de Ven")>> ],
      [ text |-> VanDerLine,    names |-> <<None, Some("Jan van der Berg"), None>> ],
      [ text |-> DeLine,        names |-> <<None, None, None>> ],
      [ text |-> TwoOwnersLine, names |-> <<Some("Bob Smit"), None, None>> ] }

OwnerCaseOf == [t \in {x.text : x \in OwnerCases} |-> CHOOSE x \in OwnerCases : x.text = t]

InitOwner ==
    /\ pages \in UNION {[1..n -> {x.text : x \in OwnerCases}] : n \in 0..MaxPages}
    /\ pc = "crawl"
    /\ result = EmptyDict
    /\ leads = <<>>
    /\ created = 0
    /\ run = NoRun
    /\ enriched_count = 0
    /\ calls = <<>>
    /\ listing = NoListing

SpecOwner == InitOwner /\ [][Next]_vars

\* the pages of the text on which owner pattern p matches
OwnerPages(p) == {k \in 1..Len(pages) : OwnerCaseOf[pages[k]].names[p] # None}

\* the name of the first match of pattern p in the text
FirstName(p) == OwnerCaseOf[pages[Min(OwnerPages(p))]].names[p]

\* c[a..b] is a capital and one or more small letters
CapitalisedWord(c, a, b) ==
    /\ 1 <= a /\ a < b /\ b <= Len(c)
    /\ c[a] \in UpperSet
    /\ \A k \in (a + 1)..b : c[k] \in LowerSet

\* a capitalised first name, an optional particle and a capitalised surname
NameShape(str) ==
    LET c == Chars(str)
    IN  \E i \in 1..Len(c) : \E part \in {"", "van ", "van de ", "van den ", "van der "} :
            /\ CapitalisedWord(c, 1, i)
            /\ i + 1 <= Len(c) /\ c[i + 1] = " "
            /\ MatchAt(c, i + 2, Chars(part))
            /\ CapitalisedWord(c, i + 2 + Len(part), Len(c))

\* C15: the owner name is the name of the eigenaar pattern if that matches
\* anywhere in the text, else of the contact pattern, else of the door/bij
\* pattern, wherever the matches are; it is absent when none matches; a name
\* returned is a capitalised first name, an optional particle (van, van de,
\* van den, van der) and a capitalised surname.
C15_OwnerPriority ==
    Extracted
    => /\ OwnerPages(1) # {} => result.owner_name = FirstName(1)
       /\ (OwnerPages(1) = {} /\ OwnerPages(2) # {}) => result.owner_name = FirstName(2)
       /\ (OwnerPages(1) = {} /\ OwnerPages(2) = {} /\ OwnerPages(3) # {})
              => result.owner_name = FirstName(3)
       /\ (OwnerPages(1) = {} /\ OwnerPages(2) = {} /\ OwnerPages(3) = {})
              => result.owner_name = None
       /\ result.owner_name # None => NameShape(result.owner_name[1])

\* door and contact names come first in the text, the eigenaar name after them
C15_Witness ==
    /\ Extracted
    /\ pages = <<VanDeLine, ContactPage>>
    /\ result.owner_name = Some("Piet van Dijk")
    /\ NameShape("Piet van Dijk")
    /\ ~NameShape("Jan de Vries")

-----------------------------------------------------------------------------
(* Calls of _extract_business_info side by side.  A call has its content, its
   position in the body of the method and its local variables; a step is one
   statement of the body, or one round of the pattern loop of
   _extract_projects. *)

MaxCalls == 2

ExtractTexts == {"", ContactPage, RepeatedProjectPage, PortfolioPage}

\* what the extractors and the findall of each project pattern give for a text
ExtractorOutput ==
    [t \in ExtractTexts \ {""} |->
        LET c  == Chars(t)
            lc == Lower(c)
        IN  [ description       |-> _extract_description(c),
              services          |-> _extract_services(lc),
              specializations   |-> _extract_specializations(lc),
              matches           |-> [p \in 1..Len(project_patterns) |->
                                        FindProjects(c, lc, project_patterns[p], 1,
                                                     ProjectsPerPattern)],
              owner_name        |-> _extract_owner_name(c),
              employee_estimate |-> _estimate_employees(lc) ]]

\* the local variables of a call that has just begun
NoLocals ==
    [ description       |-> None,
      services          |-> <<>>,
      specializations   |-> <<>>,
      projects          |-> <<>>,
      pattern           |-> 1,
      recent_projects   |-> <<>>,
      owner_name        |-> None,
      employee_estimate |-> None ]

NewCall(content) == [content |-> content, at |-> "call", locals |-> NoLocals, result |-> EmptyDict]

\* LocalsOf when the local variables are those of the first call for every call
LocalsOfFirstCall(frames, id) == frames[1].locals

\* the local variables the call id works on: its own
LocalsOf(frames, id) == frames[id].locals

\* the statement at position at of _extract_business_info, on the local
\* variables: <<next position, local variables, dict returned>>.  out is what
\* the extractors give for the content.
ExtractStatement(content, at, locals, out) ==
    CASE at = "call" ->
            IF content = "" THEN <<"done", locals, EmptyDict>>
            ELSE <<"description", locals, EmptyDict>>
      [] at = "description" ->
            <<"services",
              [locals EXCEPT !.description = out.description],
              EmptyDict>>
      [] at = "services" ->
            <<"specializations",
              [locals EXCEPT !.services = out.services],
              EmptyDict>>
      [] at = "specializations" ->
            <<"recent_projects",
              [locals EXCEPT !.specializations = out.specializations,
                             !.projects = <<>>,
                             !.pattern = 1],
              EmptyDict>>
      [] at = "recent_projects" ->
            IF locals.pattern <= Len(project_patterns)
            THEN <<"recent_projects",
                   [locals EXCEPT !.projects = AppendProjects(locals.projects,
                                      out.matches[locals.pattern]),
                                  !.pattern = @ + 1],
                   EmptyDict>>
            ELSE <<"owner_name",
                   [locals EXCEPT !.recent_projects = Truncate(locals.projects, ProjectLimit)],
                   EmptyDict>>
      [] at = "owner_name" ->
            <<"employee_estimate",
              [locals EXCEPT !.owner_name = out.owner_name],
              EmptyDict>>
      [] at = "employee_estimate" ->
            <<"return",
              [locals EXCEPT !.employee_estimate = out.employee_estimate],
              EmptyDict>>
      [] at = "return" ->
            <<"done", locals,
              [ description       |-> locals.description,
                services          |-> locals.services,
                specializations   |-> locals.specializations,
                recent_projects   |-> locals.recent_projects,
                owner_name        |-> locals.owner_name,
                employee_estimate |-> locals.employee_estimate ]>>

\* the call id executes its next statement
ExtractStep(id) ==
    /\ calls[id].at # "done"
    /\ LET step == ExtractStatement(calls[id].content, calls[id].at, LocalsOf(calls, id),
                                    Get(ExtractorOutput, calls[id].content, EmptyDict))
       IN  calls' = [calls EXCEPT ![id] = [content |-> calls[id].content,
                                           at      |-> step[1],
                                           locals  |-> step[2],
                                           result  |-> step[3]]]
    /\ UNCHANGED <<pages, pc, result, leads, created, run, enriched_count, listing>>

InitExtract ==
    /\ pages = <<>>
    /\ pc = "crawl"
    /\ result = EmptyDict
    /\ leads = <<>>
    /\ created = 0
    /\ run = NoRun
    /\ enriched_count = 0
    /\ calls \in [1..MaxCalls -> {NewCall(t) : t \in ExtractTexts}]
    /\ listing = NoListing

NextExtract == \E id \in 1..MaxCalls : ExtractStep(id)

SpecExtract == InitExtract /\ [][NextExtract]_vars

\* what a call on the text returns when it runs alone
Alone == [t \in ExtractTexts |-> _extract_business_info(t)]

\* C16: whatever the interleaving of the calls, a call that has returned has
\* returned what a call on its text returns alone; calls on the same text have
\* returned equal results.
C16_CallsIndependent ==
    /\ \A id \in 1..MaxCalls :
           calls[id].at = "done" => calls[id].result = Alone[calls[id].content]
    /\ \A i, j \in 1..MaxCalls :
           (/\ calls[i].at = "done"
            /\ calls[j].at = "done"
            /\ calls[i].content = calls[j].content) => calls[i].result = calls[j].result

\* the second call has run from start to end while the first was in its
\* pattern loop, each with projects of its own text
C16_Witness ==
    /\ calls[1].content = PortfolioPage
    /\ calls[1].at = "recent_projects"
    /\ calls[1].locals.pattern = 2
    /\ calls[1].locals.projects # <<>>
    /\ calls[2].content = RepeatedProjectPage
    /\ calls[2].at = "done"
    /\ calls[2].result.recent_projects = <<"Tuinrenovatie in Den Haag voltooid in 2023">>
    /\ calls[2].result = Alone[RepeatedProjectPage]

-----------------------------------------------------------------------------
(* Properties of the enrich loop, under SpecApi *)

\* the step is an iteration of the enrich loop whose crawl raised
FailedEnrichCrawl ==
    /\ run.active
    /\ run.op = "enrich"
    /\ run.i <= Len(run.leads)
    /\ HasWebsite(run.leads[run.i])
    /\ run'.i = run.i + 1
    /\ pc' = "failed"

\* C10: when the crawl of a lead raises in the enrich loop, crawl_website
\* returns the empty result, every stored lead (its enrichment fields,
\* enriched_at and status with it) stays as it is, enriched_count stays as it
\* is, and the request goes on with the next lead of its list.
C10_FailedCrawlLeavesLead ==
    [][FailedEnrichCrawl =>
        /\ result' = EmptyDict
        /\ leads' = leads
        /\ enriched_count' = enriched_count
        /\ run'.active
        /\ run'.op = "enrich"
        /\ run'.leads = run.leads]_vars

\* the crawl of the first of two selected leads has raised: the lead is
\* stored as it was selected, nothing is counted, the second lead is next
C10_Witness ==
    /\ run.active
    /\ run.op = "enrich"
    /\ Len(run.leads) = 2
    /\ run.i = 2
    /\ pc = "failed"
    /\ result = EmptyDict
    /\ enriched_count = 0
    /\ get_lead(leads, run.leads[1].id) = Some(run.leads[1])
    /\ run.leads[1].status = "scraped"
    /\ run.leads[1].enriched_at = None

\* the step is an iteration of the scrape or the enrich loop whose crawl gave
\* a result that is not empty, for a lead that is stored
EnrichingCrawl ==
    /\ run.active
    /\ run.i <= Len(run.leads)
    /\ HasWebsite(run.leads[run.i])
    /\ run.leads[run.i].id \in DOMAIN leads
    /\ run'.i = run.i + 1
    /\ result' # EmptyDict

\* C17: after a crawl of a stored lead's website that gave a result that is
\* not empty, the six enrichment fields of the stored lead are the fields of
\* that result, absent ones too, enriched_at is set and the status is enriched.
C17_StoredFieldsAreResult ==
    [][EnrichingCrawl =>
        LET id == run.leads[run.i].id
        IN  /\ id \in DOMAIN leads'
            /\ leads'[id].description = result'.description
            /\ leads'[id].services = result'.services
            /\ leads'[id].specializations = result'.specializations
            /\ leads'[id].recent_projects = result'.recent_projects
            /\ leads'[id].owner_name = result'.owner_name
            /\ leads'[id].employee_estimate = result'.employee_estimate
            /\ leads'[id].enriched_at # None
            /\ leads'[id].status = "enriched"]_vars

\* the lead had an owner name when it was selected; the crawl found none
C17_Witness ==
    /\ run.active
    /\ run.op = "enrich"
    /\ run.i = 2
    /\ pc = "done"
    /\ run.leads[1].owner_name = Some("Piet van Dijk")
    /\ run.leads[1].id \in DOMAIN leads
    /\ result = [ description |-> None, services |-> <<>>, specializations |-> <<>>,
                  recent_projects |-> <<>>, owner_name |-> None,
                  employee_estimate |-> Some(5) ]
    /\ leads[run.leads[1].id].owner_name = None
    /\ leads[run.leads[1].id].employee_estimate = Some(5)
    /\ leads[run.leads[1].id].enriched_at # None
    /\ leads[run.leads[1].id].status = "enriched"

\* C18: an enrich request without lead_ids selects every stored lead that has
\* a website and whose enriched_at is absent.
C18_UnenrichedSelected ==
    [][EnrichStart(None) =>
        \A id \in DOMAIN leads :
            (HasWebsite(leads[id]) /\ leads[id].enriched_at = None)
            => \E k \in 1..Len(run'.leads) : run'.leads[k].id = id]_vars

\* C19: the employee filter of a scrape request deletes no lead but those the
\* request created: a lead of an earlier request stays stored.
C19_FilterSparesEarlierLeads ==
    [][ScrapeFinish =>
        \A id \in DOMAIN leads :
            (\A k \in 1..Len(run.leads) : run.leads[k].id # id) => id \in DOMAIN leads']_vars

\* C20: when a scrape request with auto_enrich and a min_employees or
\* max_employees bound ends, every lead it created that is stored and has an
\* employee_estimate has one within the bounds given; 0 is an estimate.
C20_SurvivorsWithinBounds ==
    [][(/\ ScrapeFinish
        /\ run.auto_enrich
        /\ (run.min_employees # None \/ run.max_employees # None)) =>
        \A k \in 1..Len(run.leads) :
            LET id == run.leads[k].id
            IN  (id \in DOMAIN leads' /\ leads'[id].employee_estimate # None)
                => /\ run.min_employees # None
                          => run.min_employees[1] <= leads'[id].employee_estimate[1]
                   /\ run.max_employees # None
                          => leads'[id].employee_estimate[1] <= run.max_employees[1]]_vars

-----------------------------------------------------------------------------
(* The life cycle of a lead, under SpecApi *)

\* LeadStatus in the order of the pipeline: scraped, enriched, pitch_ready
StatusRank(status) ==
    CASE status = "scraped"     -> 1
      [] status = "enriched"    -> 2
      [] status = "pitch_ready" -> 3

\* C21: over the requests of the API no step moves the status of a stored lead
\* backward in the order scraped < enriched < pitch_ready, and a lead that
\* holds a generated pitch keeps the status pitch_ready.
C21_StatusNeverMovesBack ==
    [][\A id \in DOMAIN leads \cap DOMAIN leads' :
        /\ StatusRank(leads'[id].status) >= StatusRank(leads[id].status)
        /\ leads'[id].pitch # None => leads'[id].status = "pitch_ready"]_vars

\* the columns update_lead_enrichment writes
EnrichmentColumns ==
    { "description", "services", "specializations", "recent_projects",
      "owner_name", "employee_estimate", "enriched_at", "status" }

\* the step is an iteration of the scrape or the enrich loop that calls
\* update_lead_enrichment: the crawl gave a result that is not empty
UpdateEnrichmentCall ==
    /\ run.active
    /\ run.i <= Len(run.leads)
    /\ HasWebsite(run.leads[run.i])
    /\ run'.i = run.i + 1
    /\ result' # EmptyDict

\* C22: update_lead_enrichment changes of the lead it is called for only the
\* description, services, specializations, recent_projects, owner_name,
\* employee_estimate, enriched_at and status; the pitch, pitch_generated_at,
\* call_status, call_notes, contact_person, scraped_at and the fields of the
\* listing stay as they are, and so does every other lead; for an id that is
\* not stored the store stays as it is and no lead is returned.
C22_EnrichmentFrame ==
    [][UpdateEnrichmentCall =>
        LET id == run.leads[run.i].id
        IN  /\ DOMAIN leads' = DOMAIN leads
            /\ \A other \in DOMAIN leads \ {id} : leads'[other] = leads[other]
            /\ id \in DOMAIN leads =>
                   \A column \in DOMAIN leads[id] \ EnrichmentColumns :
                       leads'[id][column] = leads[id][column]
            /\ id \notin DOMAIN leads =>
                   /\ leads' = leads
                   /\ get_lead(leads', id) = None]_vars

\* a lead with a pitch was enriched and kept the pitch next to a lead the
\* request left alone, and the request went on to a lead deleted meanwhile
C22_Witness ==
    /\ run.active
    /\ run.op = "enrich"
    /\ run.i = 3
    /\ pc = "done"
    /\ result # EmptyDict
    /\ run.leads[1].id \in DOMAIN leads
    /\ run.leads[1].pitch = Some("pitch")
    /\ leads[run.leads[1].id].pitch = Some("pitch")
    /\ leads[run.leads[1].id].status = "enriched"
    /\ run.leads[2].id \notin DOMAIN leads

-----------------------------------------------------------------------------
(* routes.py: GET /leads, its two reads of the store a step each, next to the
   requests of other clients that create and delete leads *)

\* "phone IS NOT NULL AND phone != ''"
HasPhone(lead) == lead.phone # None /\ lead.phone # Some("")

\* LIMIT ? OFFSET ?, added to the query under "if limit"
Page(rows, limit, offset) ==
    IF limit # None /\ limit[1] # 0
    THEN SubSeq(rows, Min({offset + 1, Len(rows) + 1}), Min({offset + limit[1], Len(rows)}))
    ELSE rows

\* get_leads with every filter of a query q; a comparison with an
\* employee_estimate that is NULL selects nothing
get_leads_page(store, q) ==
    LET ids == {id \in DOMAIN store :
                   /\ q.status # None => store[id].status = q.status[1]
                   /\ q.call_status # None => store[id].call_status = q.call_status[1]
                   /\ q.has_website = Some(TRUE) => HasWebsite(store[id])
                   /\ q.has_website = Some(FALSE) => ~HasWebsite(store[id])
                   /\ q.has_phone = Some(TRUE) => HasPhone(store[id])
                   /\ q.has_phone = Some(FALSE) => ~HasPhone(store[id])
                   /\ q.min_employees # None =>
                          /\ store[id].employee_estimate # None
                          /\ store[id].employee_estimate[1] >= q.min_employees[1]
                   /\ q.max_employees # None =>
                          /\ store[id].employee_estimate # None
                          /\ store[id].employee_estimate[1] <= q.max_employees[1]}
        order == Descending(ids)
    IN  Page([k \in 1..Len(order) |-> store[order[k]]], q.limit, q.offset)

\* count_leads(status=...); status None leaves the filter out
count_leads(store, status) ==
    Cardinality({id \in DOMAIN store : status # None => store[id].status = status[1]})

\* a query without filters
AllLeads ==
    [ status |-> None, call_status |-> None, has_website |-> None, has_phone |-> None,
      min_employees |-> None, max_employees |-> None, limit |-> None, offset |-> 0 ]

\* the query strings of the GET /leads requests
ListQueries ==
    { AllLeads,
      [AllLeads EXCEPT !.status = Some("scraped")],
      [AllLeads EXCEPT !.status = Some("pitch_ready"), !.has_website = Some(TRUE)],
      [AllLeads EXCEPT !.call_status = Some("not_called"), !.has_website = Some(FALSE)],
      [AllLeads EXCEPT !.has_phone = Some(FALSE), !.limit = Some(1)],
      [AllLeads EXCEPT !.has_phone = Some(TRUE)],
      [AllLeads EXCEPT !.limit = Some(1), !.offset = 1],
      [AllLeads EXCEPT !.min_employees = Some(1), !.max_employees = Some(9)] }

\* GET /leads up to the first read: lead_store.get_leads(...)
ListStart(q) ==
    /\ listing.phase # "read"
    /\ listing' = [ phase  |-> "read",
                    status |-> q.status,
                    leads  |-> get_leads_page(leads, q) ]
    /\ UNCHANGED <<pages, pc, result, leads, created, run, enriched_count, calls>>

\* GET /leads from the second read on: lead_store.count_leads(status=status)
\* and the response
ListFinish ==
    /\ listing.phase = "read"
    /\ listing' = [ phase |-> "done",
                    leads |-> listing.leads,
                    total |-> count_leads(leads, listing.status) ]
    /\ UNCHANGED <<pages, pc, result, leads, created, run, enriched_count, calls>>

NextList ==
    \/ \E n \in 0..MaxLeads : \E websites \in [1..n -> Websites] :
        ScrapeStart(websites, FALSE, None, None)
    \/ ScrapeFinish
    \/ \E lead_id \in 1..MaxLeads : GeneratePitch(lead_id)
    \/ \E lead_id \in 1..MaxLeads : DeleteLead(lead_id)
    \/ \E q \in ListQueries : ListStart(q)
    \/ ListFinish

SpecList == InitApi /\ [][NextList]_vars

\* C23: in every response of GET /leads total is at least the number of leads
\* returned, also when requests of other clients that create or delete leads
\* come between the two reads of the store.
C23_TotalCoversReturned ==
    listing.phase = "done" => listing.total >= Len(listing.leads)

-----------------------------------------------------------------------------
(* The description of texts whose candidate is white space *)

Spaces49 == "                                                 "

Spaces100 == "                                                                                                    "

Tabs60 == "\t\t\t\t\t\t\t\t\t\t\t\t\t\t\t\t\t\t\t\t\t\t\t\t\t\t\t\t\t\t\t\t\t\t\t\t\t\t\t\t\t\t\t\t\t\t\t\t\t\t\t\t\t\t\t\t\t\t\t\t"

\* "over ons" followed by a colon and 50 spaces
BlankOverOns == "Over ons:" \o Spaces49 \o " "

\* "wie zijn wij" followed by 60 tabs
BlankWieZijnWij == "Wie zijn wij" \o Tabs60

\* "welkom" followed by 49 spaces: one short of a capture
BlankWelkom == "Welkom" \o Spaces49

\* a paragraph of 101 spaces, and one of 100
BlankParagraph101 == Spaces100 \o " "

BlankParagraph100 == Spaces100

BlankTexts ==
    { BlankOverOns, BlankWieZijnWij, BlankWelkom, BlankParagraph101, BlankParagraph100,
      OverOnsLine, LongParagraph }

InitBlank ==
    /\ pages \in UNION {[1..n -> BlankTexts] : n \in 0..MaxPages}
    /\ pc = "crawl"
    /\ result = EmptyDict
    /\ leads = <<>>
    /\ created = 0
    /\ run = NoRun
    /\ enriched_count = 0
    /\ calls = <<>>
    /\ listing = NoListing

SpecBlank == InitBlank /\ [][Next]_vars

\* C24: a description that is present is not the empty string; a text whose
\* only candidate, a phrase capture or a paragraph of more than 100
\* characters, is white space has no description.
C24_DescriptionNotEmpty ==
    Extracted => result.description # Some("")

====
